---- MODULE Spec2Model ----
(***************************************************************************)
(* Model of custom_components/electrolux_status/api.py (and the entity    *)
(* base class of entity.py): the name normalisation get_sensor_name, the  *)
(* decision table get_entity_type, and the Appliance setup / update path. *)
(***************************************************************************)
EXTENDS Integers, Sequences, FiniteSets, TLC

VARIABLES
    \* ---- ElectroluxLibraryEntity.get_sensor_name (api.py 70-109) ----
    attr_name,      \* the identifier passed in (a sequence of characters)
    s,              \* the normalised string the loop runs over
    i,              \* number of characters of s already consumed
    group,          \* the group being accumulated
    words,          \* the words emitted so far
    label,          \* the returned label
    pcName,         \* position: "call", "loop", "done"
    \* ---- ElectroluxLibraryEntity.get_entity_type (api.py 162-216) ----
    capability_def, \* the capability definition looked up
    entity_type,    \* the returned entity kind
    pcType,         \* position: "call", "done"
    \* ---- Appliance (api.py 229-542) and its collaborators ----
    catalog,            \* the Catalog items (their capability_info dicts are shared objects)
    heap,               \* the appliance state objects allocated so far
    state,              \* Appliance.state: 0 is None, else an object of heap
    own_capabilties,    \* Appliance.own_capabilties
    reported_state,     \* Appliance.data.reported_state: the object whose reported dict it is
    capabilities,       \* Appliance.data.capabilities
    capabilities_names, \* the local of Appliance.setup
    entities,           \* Appliance.entities
    phase,              \* "constructed", "setup", "ready", "failed"
    call,               \* the last call made on the appliance
    ncalls              \* number of update calls made

nameVars == <<attr_name, s, i, group, words, label, pcName>>
typeVars == <<capability_def, entity_type, pcType>>
appVars == <<catalog, heap, state, own_capabilties, reported_state, capabilities,
             capabilities_names, entities, phase, call, ncalls>>
vars == <<nameVars, typeVars, appVars>>

(***************************************************************************)
(* Bounds                                                                  *)
(***************************************************************************)
MaxLen == 5

(***************************************************************************)
(* Characters.  A string is a sequence of one-character strings.           *)
(***************************************************************************)
LowerChars == {"a", "b"}
UpperChars == {"A", "B"}
DigitChars == {"1"}
Alphabet == {"a", "B", "1", "_", "/"}

islower(c) == c \in LowerChars
isupper(c) == c \in UpperChars
isdigit(c) == c \in DigitChars

upper(c) == CASE c = "a" -> "A"
              [] c = "b" -> "B"
              [] OTHER -> c

lower(c) == CASE c = "A" -> "a"
              [] c = "B" -> "b"
              [] OTHER -> c

str_lower(str) == [k \in 1..Len(str) |-> lower(str[k])]

\* str.rpartition("/")[-1]: what follows the last "/", the whole string when
\* there is none.
RECURSIVE rpartition_tail(_)
rpartition_tail(str) ==
    IF str = <<>> THEN <<>>
    ELSE IF str[Len(str)] = "/" THEN <<>>
    ELSE Append(rpartition_tail(SubSeq(str, 1, Len(str) - 1)), str[Len(str)])

\* str.replace("_", " ")
replace_underscore(str) == [k \in 1..Len(str) |-> IF str[k] = "_" THEN " " ELSE str[k]]

\* re.match("^[A-Z0-9]+$", group)
is_acronym(g) == Len(g) > 0 /\ \A k \in 1..Len(g) : isupper(g[k]) \/ isdigit(g[k])

\* the word emitted for a finished group at a case transition or at the end
emit(g) == IF is_acronym(g) THEN g ELSE str_lower(g)

\* " ".join(words)
RECURSIVE join(_)
join(ws) ==
    IF ws = <<>> THEN <<>>
    ELSE IF Len(ws) = 1 THEN ws[1]
    ELSE ws[1] \o <<" ">> \o join(Tail(ws))

\* lines 72-74: strip the path, capitalise the first character, replace "_"
normalise(name) ==
    LET t  == IF rpartition_tail(name) # <<>> THEN rpartition_tail(name) ELSE name
        t2 == <<upper(t[1])>> \o SubSeq(t, 2, Len(t))
    IN  replace_underscore(t2)

\* lines 88-94: the character continues a run of capitals/digits
continues_run(str, p) ==
    /\ (isupper(str[p]) \/ isdigit(str[p]))
    /\ (isupper(str[p - 1]) \/ isdigit(str[p - 1]))
    /\ (p = Len(str) \/ isupper(str[p + 1]) \/ isdigit(str[p + 1]))

\* a variant that takes only a capital letter, not a digit, as the start of a group
starts_group_letters_only(str, p) ==
    isupper(str[p]) /\ islower(str[p - 1])

\* line 96: the character starts a new group
starts_group(str, p) ==
    (isupper(str[p]) \/ isdigit(str[p])) /\ islower(str[p - 1])

RECURSIVE SeqsUpTo(_)
SeqsUpTo(n) ==
    IF n = 0 THEN {<<>>}
    ELSE LET prev == SeqsUpTo(n - 1)
         IN  prev \cup {Append(q, c) : q \in {r \in prev : Len(r) = n - 1}, c \in Alphabet}

Identifiers == SeqsUpTo(MaxLen) \ {<<>>}

InitName ==
    /\ attr_name \in Identifiers
    /\ s = <<>>
    /\ i = 0
    /\ group = <<>>
    /\ words = <<>>
    /\ label = <<>>
    /\ pcName = "call"

\* lines 72-77
SensorNameEnter ==
    /\ pcName = "call"
    /\ s' = normalise(attr_name)
    /\ i' = 0
    /\ group' = <<>>
    /\ words' = <<>>
    /\ pcName' = "loop"
    /\ UNCHANGED <<attr_name, label>>
    /\ UNCHANGED <<typeVars, appVars>>

\* lines 78-103: one iteration of the loop, on character s[i + 1]
SensorNameStep ==
    /\ pcName = "loop"
    /\ i < Len(s)
    /\ LET p    == i + 1
           char == s[p]
       IN  IF group = <<>>
           THEN group' = <<char>> /\ words' = words
           ELSE IF char = " " /\ Len(group) > 0
           THEN words' = Append(words, group) /\ group' = <<>>
           ELSE IF continues_run(s, p)
           THEN group' = Append(group, char) /\ words' = words
           ELSE IF starts_group(s, p)
           THEN words' = Append(words, emit(group)) /\ group' = <<char>>
           ELSE group' = Append(group, char) /\ words' = words
    /\ i' = i + 1
    /\ UNCHANGED <<attr_name, s, label, pcName>>
    /\ UNCHANGED <<typeVars, appVars>>

\* lines 104-109
SensorNameReturn ==
    /\ pcName = "loop"
    /\ i = Len(s)
    /\ LET final == IF Len(group) > 0 THEN Append(words, emit(group)) ELSE words
       IN  /\ words' = final
           /\ label' = join(final)
    /\ pcName' = "done"
    /\ UNCHANGED <<attr_name, s, i, group>>
    /\ UNCHANGED <<typeVars, appVars>>

NextName == SensorNameEnter \/ SensorNameStep \/ SensorNameReturn

(***************************************************************************)
(* get_entity_type                                                         *)
(***************************************************************************)
\* const.py entity kinds
SENSOR == "sensor"
BINARY_SENSOR == "binary_sensor"
SWITCH == "switch"
NUMBER == "number"
SELECT == "select"
BUTTON == "button"

\* Python's None, for string-valued fields
None == "None"

\* the "values" entry of a capability: absent (None), a dict of named values,
\* or a non-dict value (a list)
NoValues == [kind |-> "None", keys |-> {}]
EmptyValues == [kind |-> "dict", keys |-> {}]
DictValues(ks) == [kind |-> "dict", keys |-> ks]
ListValues(ks) == [kind |-> "list", keys |-> ks]

TypeNames == {None, "boolean", "temperature", "number", "int", "string", "alert"}
AccessNames == {None, "read", "readwrite", "write", "constant"}
ValuesKinds == {NoValues, EmptyValues, DictValues({"ON", "OFF"}), ListValues({"ON", "OFF"})}
MinValues == {None, "0", "30"}

\* a capability definition: None, or a dict with optional type/access/values/min
NoCapability == [present |-> FALSE, type |-> None, access |-> None, values |-> NoValues, min |-> None]
CapabilityDefs ==
    {NoCapability} \cup
    [present : {TRUE}, type : TypeNames, access : AccessNames, values : ValuesKinds, min : MinValues]

\* truthiness of a capability dict: None and {} are falsy
cap_truthy(c) ==
    c.present /\ (c.type # None \/ c.access # None \/ c.values # NoValues \/ c.min # None)

\* truthiness of a "values" entry: None, {} and [] are falsy
values_truthy(v) == v.kind # "None" /\ v.keys # {}

\* a variant without the exception
no_switch_exception(c) == FALSE

\* lines 177-181: the boolean/readwrite/values exception
is_switch_exception(c) ==
    c.type = "boolean" /\ c.access = "readwrite" /\ c.values # NoValues

\* a variant that joins the two tests of line 192 with "and"
is_select_and(c) ==
    /\ values_truthy(c.values)
    /\ c.access = "readwrite"
    /\ c.values.kind = "dict"
    /\ Cardinality(c.values.keys) > 0
    /\ (c.type # "number" /\ c.min = None)

\* a variant without the test of line 192
is_select_any_min(c) ==
    /\ values_truthy(c.values)
    /\ c.access = "readwrite"
    /\ c.values.kind = "dict"
    /\ Cardinality(c.values.keys) > 0

\* lines 186-193: a list of values that is not a numeric range
is_select(c) ==
    /\ values_truthy(c.values)
    /\ c.access = "readwrite"
    /\ c.values.kind = "dict"
    /\ Cardinality(c.values.keys) > 0
    /\ (c.type # "number" \/ c.min = None)

\* a variant whose default case leaves "string" out of the read list
match_type_no_string(c) ==
    CASE c.type = "boolean" ->
            IF c.access = "read" THEN BINARY_SENSOR
            ELSE IF c.access = "readwrite" THEN SWITCH
            ELSE None
      [] c.type = "temperature" ->
            IF c.access = "read" THEN SENSOR
            ELSE IF c.access = "readwrite" THEN NUMBER
            ELSE None
      [] OTHER ->
            IF c.access = "read" /\ c.type \in {"number", "int", "boolean"} THEN SENSOR
            ELSE IF c.type \in {"int", "number"} THEN NUMBER
            ELSE None

\* lines 195-216: the match statement
match_type(c) ==
    CASE c.type = "boolean" ->
            IF c.access = "read" THEN BINARY_SENSOR
            ELSE IF c.access = "readwrite" THEN SWITCH
            ELSE None
      [] c.type = "temperature" ->
            IF c.access = "read" THEN SENSOR
            ELSE IF c.access = "readwrite" THEN NUMBER
            ELSE None
      [] OTHER ->
            IF c.access = "read" /\ c.type \in {"number", "int", "boolean", "string"} THEN SENSOR
            ELSE IF c.type \in {"int", "number"} THEN NUMBER
            ELSE None

\* lines 162-216, on the capability definition found under attr_name
get_entity_type(c) ==
    IF ~cap_truthy(c) THEN None
    ELSE IF c.type = None THEN None
    ELSE IF c.access = None THEN None
    ELSE IF is_switch_exception(c) THEN SWITCH
    ELSE IF is_select(c) THEN SELECT
    ELSE match_type(c)

InitType ==
    /\ capability_def \in CapabilityDefs
    /\ entity_type = "unset"
    /\ pcType = "call"

GetEntityType ==
    /\ pcType = "call"
    /\ entity_type' = get_entity_type(capability_def)
    /\ pcType' = "done"
    /\ UNCHANGED capability_def
    /\ UNCHANGED <<nameVars, appVars>>

NextType == GetEntityType


(***************************************************************************)
(* Appliance: the catalog, the reported state and the entity list          *)
(***************************************************************************)
\* Bounds of the appliance model
MaxCalls == 2

\* a capability path is the sequence of its "/"-separated segments
\* get_entity_name: attr_name.rpartition("/")[-1] or attr_name
get_entity_name(path) == path[Len(path)]

\* get_category: attr_name.rpartition("/")[0]
get_category(path) == IF Len(path) = 1 THEN "" ELSE path[1]

\* f"{category}/{key}" if category else key
make_path(category, key) ==
    IF category # None /\ category # "" THEN <<category, key>> ELSE <<key>>

CapInfo(t, a, v, m) == [present |-> TRUE, type |-> t, access |-> a, values |-> v, min |-> m]

\* const.py: Catalog (entity name -> ElectroluxDevice) in definition order
CatalogKeys ==
    <<"connectivityState", "linkQualityIndicator", "doorState", "targetTemperatureC",
      "executeCommand">>

Catalog ==
    [k \in {CatalogKeys[n] : n \in 1..Len(CatalogKeys)} |->
        CASE k = "connectivityState" ->
                [category |-> None, capability_info |-> CapInfo("string", "read", NoValues, None)]
          [] k = "linkQualityIndicator" ->
                [category |-> "networkInterface",
                 capability_info |-> CapInfo("string", "read", DictValues({"GOOD", "POOR"}), None)]
          [] k = "doorState" ->
                [category |-> None,
                 capability_info |-> CapInfo("string", "read", DictValues({"OPEN", "CLOSED"}), None)]
          [] k = "targetTemperatureC" ->
                [category |-> "userSelections",
                 capability_info |-> CapInfo("temperature", "readwrite", NoValues, "0")]
          [] k = "executeCommand" ->
                [category |-> None,
                 capability_info |-> CapInfo("string", "write", DictValues({"ON", "OFF"}), None)]]

\* const.py: COMMON_ATTRIBUTES
COMMON_ATTRIBUTES == << <<"connectivityState">>, <<"networkInterface", "linkQualityIndicator">> >>

\* ---- the reported section: a dict of scalars and of category containers ----
Absent == "absent"
SubKeys == {"linkQualityIndicator", "targetTemperatureC"}
RKeys == {"connectivityState", "doorState", "networkInterface", "userSelections"}

NoSub == [k \in SubKeys |-> Absent]
Missing == [kind |-> Absent, val |-> Absent, sub |-> NoSub]
Scalar(v) == [kind |-> "scalar", val |-> v, sub |-> NoSub]
Container(k, v) == [kind |-> "dict", val |-> Absent, sub |-> [NoSub EXCEPT ![k] = v]]

\* Python truthiness of d.get(key, None)
truthy(x) ==
    CASE x.kind = Absent -> FALSE
      [] x.kind = "scalar" -> x.val # "0"
      [] OTHER -> \E k \in SubKeys : x.sub[k] # Absent

\* container.get(key) on a reported entry that is truthy
sub_truthy(x, k) == x.kind = "dict" /\ x.sub[k] # Absent /\ x.sub[k] # "0"

EmptyReported == [k \in RKeys |-> Missing]
reported_truthy(r) == \E k \in RKeys : r[k].kind # Absent

\* ---- an appliance state (ApplienceStatusResponse) ----
\* props: "missing" (no properties key), "noreported" (properties without a
\* reported section), "reported"
StateObj(p, c, d, r) == [props |-> p, connectionState |-> c, desired |-> d, reported |-> r]

has_reported(st) == st.props = "reported"

\* state.get("properties", {}).get("reported")  (None when either is missing)
get_reported(st) == IF has_reported(st) THEN st.reported ELSE EmptyReported

\* a variant that tests the presence of the key, not the truth of its value
key_reported_any_value(r, key, item) ==
    \/ /\ item.category # None /\ item.category # ""
       /\ r[item.category].kind = "dict"
       /\ r[item.category].sub[key] # Absent
    \/ /\ (item.category = None \/ item.category = "")
       /\ key \in RKeys
       /\ r[key].kind # Absent

\* lines 409-415: the catalog entry is seen in the reported state
key_reported(r, key, item) ==
    \/ /\ item.category # None /\ item.category # ""
       /\ truthy(r[item.category])
       /\ sub_truthy(r[item.category], key)
    \/ /\ (item.category = None \/ item.category = "")
       /\ key \in RKeys
       /\ truthy(r[key])

\* line 416
is_forced(key) == key = "executeCommand"


\* ---- capability dicts (insertion ordered) ----
\* an entry holds its own capability_info dict, or is the very dict object of
\* a catalog item (alias = that item's key), as assigned in lines 419 and 444
CapEntry(path, alias, info) == [path |-> path, alias |-> alias, info |-> info]
NoneCaps == [isNone |-> TRUE, items |-> <<>>]
DictCaps(items) == [isNone |-> FALSE, items |-> items]

cap_paths(caps) == [n \in 1..Len(caps.items) |-> caps.items[n].path]
has_path(caps, path) == \E n \in 1..Len(caps.items) : caps.items[n].path = path
cap_index(caps, path) == CHOOSE n \in 1..Len(caps.items) : caps.items[n].path = path

\* the dict object an entry refers to
entry_info(e, cat) == IF e.alias # None THEN cat[e.alias].capability_info ELSE e.info

\* capabilities.get(path, None)
cap_get(caps, cat, path) ==
    IF ~caps.isNone /\ has_path(caps, path)
    THEN entry_info(caps.items[cap_index(caps, path)], cat)
    ELSE NoCapability

\* capabilities[path] = catalog[key].capability_info
cap_set_alias(caps, path, key) ==
    IF has_path(caps, path)
    THEN DictCaps([caps.items EXCEPT ![cap_index(caps, path)] = CapEntry(path, key, NoCapability)])
    ELSE DictCaps(Append(caps.items, CapEntry(path, key, NoCapability)))

\* lines 218-226: sources_list
is_care(path) == path[1] = "applianceCareAndMaintenance"
sources_list(caps) == SelectSeq(cap_paths(caps), LAMBDA q : ~is_care(q))

\* ---- entities ----
Unset == 0 - 1
NoneEntity ==
    [entity_attr |-> None, entity_source |-> None, entity_type |-> None,
     val_to_send |-> None, appliance_status |-> Unset]
Entity(attr, source, type, val) ==
    [entity_attr |-> attr, entity_source |-> source, entity_type |-> type,
     val_to_send |-> val, appliance_status |-> Unset]

EntityKinds == {SENSOR, BINARY_SENSOR, SELECT, NUMBER, SWITCH}

\* lines 295-391: get_entity; raised on capabilities[capability] of a missing key
get_entity(caps, cat, capability) ==
    LET type == get_entity_type(cap_get(caps, cat, capability))
    IN  IF caps.isNone \/ ~has_path(caps, capability)
        THEN [raised |-> TRUE, entity |-> NoneEntity]
        ELSE IF type \in EntityKinds
        THEN [raised |-> FALSE,
              entity |-> Entity(get_entity_name(capability), get_category(capability), type, None)]
        ELSE [raised |-> FALSE, entity |-> NoneEntity]

\* lines 403-421: the capabilities rebuilt from the catalog and the reported state
RECURSIVE rebuild(_, _, _)
rebuild(r, cat, n) ==
    IF n = 0 THEN DictCaps(<<>>)
    ELSE LET key  == CatalogKeys[n]
             item == cat[key]
             rest == rebuild(r, cat, n - 1)
         IN  IF key_reported(r, key, item) \/ is_forced(key)
             THEN cap_set_alias(rest, make_path(item.category, key), key)
             ELSE rest

\* lines 464-466: fill the attributes that are None from the catalog item's dict
merge_info(info, from) ==
    [info EXCEPT !.type   = IF info.type = None THEN from.type ELSE info.type,
                 !.access = IF info.access = None THEN from.access ELSE info.access,
                 !.values = IF info.values = NoValues THEN from.values ELSE info.values,
                 !.min    = IF info.min = None THEN from.min ELSE info.min]


\* ---- Appliance.setup, lines 426-446: one common attribute ----
\* acc: raised, caps (data.capabilities), cat (the catalog objects), entities,
\* catalog_item (the local of that name: "unbound", None or a catalog key)
names_found(names, entity_name, category) ==
    \E n \in 1..Len(names) :
        get_entity_name(names[n]) = entity_name /\ category = get_category(names[n])

common_step(acc, names, ca) ==
    LET entity_name == get_entity_name(ca)
        category    == get_category(ca)
    IN  IF acc.raised THEN acc
        ELSE IF names.isNone THEN [acc EXCEPT !.raised = TRUE]
        ELSE IF names_found(names.seq, entity_name, category) THEN acc
        ELSE IF entity_name \notin DOMAIN acc.cat THEN [acc EXCEPT !.catalog_item = None]
        ELSE IF acc.caps.isNone THEN [acc EXCEPT !.catalog_item = entity_name, !.raised = TRUE]
        ELSE LET caps2 == cap_set_alias(acc.caps, ca, entity_name)
                 ge    == get_entity(caps2, acc.cat, ca)
             IN  [acc EXCEPT !.catalog_item = entity_name,
                             !.caps = caps2,
                             !.raised = ge.raised,
                             !.entities = IF ge.raised THEN @ ELSE Append(@, ge.entity)]

RECURSIVE common_loop(_, _, _)
common_loop(acc, names, n) ==
    IF n = 0 THEN acc
    ELSE common_step(common_loop(acc, names, n - 1), names, COMMON_ATTRIBUTES[n])

\* lines 469-506: one button per command of executeCommand
CommandOrder == <<"ON", "OFF">>
buttons(capability, values) ==
    LET cmds == SelectSeq(CommandOrder, LAMBDA c : c \in values.keys)
    IN  [n \in 1..Len(cmds) |->
            Entity(get_entity_name(capability), get_category(capability), BUTTON, cmds[n])]

\* ---- Appliance.setup, lines 449-510: one capability ----
\* line 460 reads the local catalog_item, last assigned in the loop above
capability_step(acc, capability) ==
    IF acc.raised THEN acc
    ELSE IF acc.catalog_item = "unbound" THEN [acc EXCEPT !.raised = TRUE]
    ELSE
    LET n     == cap_index(acc.caps, capability)
        e     == acc.caps.items[n]
        cur   == entry_info(e, acc.cat)
        from  == IF acc.catalog_item = None THEN NoCapability
                 ELSE acc.cat[acc.catalog_item].capability_info
        fill  == acc.catalog_item # None /\ cur.present /\ cap_truthy(from)
        new   == IF fill THEN merge_info(cur, from) ELSE cur
        local == IF acc.catalog_item # None /\ ~cur.present THEN from ELSE new
        cat2  == IF fill /\ e.alias # None
                 THEN [acc.cat EXCEPT ![e.alias].capability_info = new]
                 ELSE acc.cat
        caps2 == IF fill /\ e.alias = None
                 THEN DictCaps([acc.caps.items EXCEPT ![n].info = new])
                 ELSE acc.caps
        ge    == get_entity(caps2, cat2, capability)
    IN  IF capability = <<"executeCommand">>
        THEN IF ~local.present \/ local.values.kind # "dict"
             THEN [acc EXCEPT !.raised = TRUE, !.caps = caps2, !.cat = cat2]
             ELSE [acc EXCEPT !.caps = caps2, !.cat = cat2,
                              !.entities = @ \o buttons(capability, local.values)]
        ELSE [acc EXCEPT !.caps = caps2, !.cat = cat2,
                         !.raised = ge.raised,
                         !.entities = IF ge.raised \/ ge.entity = NoneEntity
                                      THEN @ ELSE Append(@, ge.entity)]

RECURSIVE capability_loop(_, _, _)
capability_loop(acc, names, n) ==
    IF n = 0 THEN acc
    ELSE capability_step(capability_loop(acc, names, n - 1), names[n])

\* ---- entity.update(self.state) for each entity (entity.py 140-141) ----
first_none(ents) ==
    IF \E n \in 1..Len(ents) : ents[n] = NoneEntity
    THEN CHOOSE n \in 1..Len(ents) :
            ents[n] = NoneEntity /\ \A m \in 1..(n - 1) : ents[m] # NoneEntity
    ELSE Len(ents) + 1

\* a variant in which only the entities without a source take the new status
update_entities_without_source(ents, ref) ==
    [n \in 1..Len(ents) |->
        IF n < first_none(ents) /\ ents[n].entity_source \in {None, ""}
        THEN [ents[n] EXCEPT !.appliance_status = ref] ELSE ents[n]]

update_entities(ents, ref) ==
    [n \in 1..Len(ents) |->
        IF n < first_none(ents) THEN [ents[n] EXCEPT !.appliance_status = ref] ELSE ents[n]]

\* ---- Appliance.update_missing_entities, lines 256-293 ----
\* acc: raised, caps, entities, capability (the local of that name; <<>> is "")
entity_index(ents, key, category) ==
    IF \E n \in 1..Len(ents) : ents[n].entity_attr = key /\ ents[n].entity_source = category
    THEN CHOOSE n \in 1..Len(ents) : ents[n].entity_attr = key /\ ents[n].entity_source = category
    ELSE 0

missing_step(acc, cat, r, key) ==
    LET item == cat[key]
        seen == \/ /\ item.category # None /\ item.category # ""
                   /\ truthy(r[item.category]) /\ sub_truthy(r[item.category], key)
                \/ /\ (item.category = None \/ item.category = "")
                   /\ key \in RKeys /\ truthy(r[key])
        path == IF item.category = None THEN <<key>> ELSE <<item.category, key>>
        ge   == get_entity(acc.caps, cat, acc.capability)
    IN  IF acc.raised \/ ~seen THEN acc
        ELSE IF entity_index(acc.entities, key, item.category) # 0
        THEN IF acc.caps.isNone THEN [acc EXCEPT !.raised = TRUE, !.capability = path]
             ELSE [acc EXCEPT !.capability = path, !.caps = cap_set_alias(@, path, key)]
        ELSE IF acc.capability = <<>> \/ ge.raised THEN [acc EXCEPT !.raised = TRUE]
        ELSE IF ge.entity = NoneEntity THEN acc
        ELSE [acc EXCEPT !.entities = Append(@, ge.entity)]

RECURSIVE missing_loop(_, _, _, _)
missing_loop(acc, cat, r, n) ==
    IF n = 0 THEN acc
    ELSE missing_step(missing_loop(acc, cat, r, n - 1), cat, r, CatalogKeys[n])

update_missing_entities(own, st, isNoneState, caps, cat, ents) ==
    LET acc0 == [raised |-> FALSE, caps |-> caps, entities |-> ents, capability |-> <<>>]
    IN  IF ~own THEN acc0
        ELSE IF isNoneState THEN [acc0 EXCEPT !.raised = TRUE]
        ELSE IF has_reported(st) /\ reported_truthy(st.reported)
        THEN missing_loop(acc0, cat, st.reported, Len(CatalogKeys))
        ELSE acc0

\* a variant that replaces the reported section by the delivered dict
dict_replace(r, d) == d

\* ---- local_reported_data.update(reported_data), line 524 ----
dict_update(r, d) == [k \in RKeys |-> IF d[k].kind # Absent THEN d[k] ELSE r[k]]


\* ---- values read from a reported section ----
\* the result of a lookup: Missing is None, AttributeError an escaped exception
AttributeError == [kind |-> "error", val |-> Absent, sub |-> NoSub]

\* d.get(key, None) on the reported dict and on one of its containers
dict_get(r, key) == IF key \in RKeys THEN r[key] ELSE Missing
container_get(c, key) ==
    IF c.kind # "dict" THEN AttributeError
    ELSE IF key \in SubKeys /\ c.sub[key] # Absent THEN Scalar(c.sub[key])
    ELSE Missing

\* ElectroluxEntity.extract_value, entity.py lines 120-135; appliance_status is
\* only annotated in the class, so reading it before update raises
extract_value(e, hp) ==
    IF e.appliance_status = Unset THEN AttributeError
    ELSE IF e.appliance_status = 0 THEN Missing
    ELSE LET st   == hp[e.appliance_status]
             root == st.reported
         IN  IF st.props = "missing" THEN Missing
             ELSE IF ~has_reported(st) \/ ~reported_truthy(root) THEN Missing
             ELSE IF e.entity_source # None /\ e.entity_source # ""
             THEN LET category == dict_get(root, e.entity_source)
                  IN  IF truthy(category) THEN container_get(category, e.entity_attr)
                      ELSE Missing
             ELSE dict_get(root, e.entity_attr)

\* ElectroluxLibraryEntity.get_value, api.py lines 61-68, on the reported
\* section captured at construction (line 53)
get_value(hp, ref, attr, source) ==
    LET reported == hp[ref].reported
    IN  IF source # None /\ source # ""
        THEN LET container == dict_get(reported, source)
             IN  IF container.kind = Absent THEN Missing
                 ELSE container_get(container, attr)
        ELSE dict_get(reported, attr)

\* ---- inputs ----
ConnectionStates == {"connected", "disconnected"}
ReportedStates ==
    {[connectivityState |-> c, doorState |-> d, networkInterface |-> n, userSelections |-> u] :
        c \in {Missing, Scalar("1")},
        d \in {Missing, Scalar("0"), Scalar("1")},
        n \in {Missing, Container("linkQualityIndicator", "1")},
        u \in {Missing, [kind |-> "dict", val |-> Absent, sub |-> NoSub],
               Container("targetTemperatureC", "0"), Container("targetTemperatureC", "1")}}

InitStates ==
    {StateObj("missing", c, Absent, EmptyReported) : c \in ConnectionStates}
    \cup {StateObj("noreported", c, "d0", EmptyReported) : c \in ConnectionStates}
    \cup {StateObj("reported", c, "d0", r) : c \in ConnectionStates, r \in ReportedStates}

\* the statuses delivered by Appliance.update
UpdateStates ==
    {StateObj("missing", "connected", Absent, EmptyReported),
     StateObj("noreported", "connected", "d1", EmptyReported),
     StateObj("reported", "connected", "d1", EmptyReported),
     StateObj("reported", "disconnected", "d1",
              [EmptyReported EXCEPT !["doorState"] = Scalar("1")]),
     StateObj("reported", "connected", "d1",
              [EmptyReported EXCEPT !["connectivityState"] = Scalar("1"),
                                    !["userSelections"] = Container("targetTemperatureC", "1")])}

\* the dicts delivered by Appliance.update_reported_data
ReportedData ==
    {EmptyReported,
     [EmptyReported EXCEPT !["doorState"] = Scalar("1")],
     [EmptyReported EXCEPT !["doorState"] = Scalar("0")],
     [EmptyReported EXCEPT !["userSelections"] = Container("targetTemperatureC", "1")],
     [EmptyReported EXCEPT !["connectivityState"] = Scalar("1"),
                           !["networkInterface"] = Container("linkQualityIndicator", "1")]}

\* the capabilities the server reports: None, or a dict
ServerCapabilities ==
    {NoneCaps,
     DictCaps(<< CapEntry(<<"doorState">>, None, CapInfo("string", "read", NoValues, None)),
                 CapEntry(<<"userSelections", "targetTemperatureC">>, None,
                          CapInfo("temperature", "readwrite", NoValues, None)),
                 CapEntry(<<"executeCommand">>, None,
                          CapInfo("string", "write", DictValues({"ON", "OFF"}), None)) >>),
     DictCaps(<< CapEntry(<<"applianceCareAndMaintenance", "time">>, None,
                          CapInfo("number", "read", NoValues, None)),
                 CapEntry(<<"connectivityState">>, None, CapInfo("string", "read", NoValues, None)),
                 CapEntry(<<"doorState">>, None, CapInfo(None, "read", NoValues, None)) >>)}

\* a call: its name, whether it raised, and its argument (the dict of
\* update_reported_data, the status of update, whether setup's data had no
\* capabilities)
NoCall == [op |-> "none", raised |-> FALSE, d |-> EmptyReported, ref |-> 0, no_caps |-> FALSE]

\* Appliance.__init__, lines 237-254
InitApp ==
    /\ catalog = Catalog
    /\ \/ heap = <<>> /\ state = 0
       \/ \E st \in InitStates : heap = <<st>> /\ state = 1
    /\ own_capabilties = FALSE
    /\ reported_state = 0
    /\ capabilities = NoneCaps
    /\ capabilities_names = [isNone |-> TRUE, seq |-> <<>>]
    /\ entities = <<>>
    /\ phase = "constructed"
    /\ call = NoCall
    /\ ncalls = 0

\* Appliance.setup, lines 393-425.  data is an ElectroluxLibraryEntity, built
\* (lines 41-55) on a state that has properties.reported: the appliance's own
\* state object when it has one, else another status
SetupRebuild(caps_in, fresh) ==
    /\ phase = "constructed"
    /\ LET own_ok == state # 0 /\ has_reported(heap[state])
           heap2  == IF own_ok THEN heap ELSE Append(heap, fresh)
           names0 == IF caps_in.isNone THEN [isNone |-> TRUE, seq |-> <<>>]
                     ELSE [isNone |-> FALSE, seq |-> sources_list(caps_in)]
           fallback == names0.isNone /\ state # 0
           reported == IF state # 0 THEN get_reported(heap[state]) ELSE EmptyReported
           rebuilt  == rebuild(reported, catalog, Len(CatalogKeys))
       IN  /\ heap' = heap2
           /\ reported_state' = IF own_ok THEN state ELSE Len(heap2)
           /\ capabilities' = IF fallback /\ reported_truthy(reported) THEN rebuilt ELSE caps_in
           /\ capabilities_names' =
                 IF ~fallback THEN names0
                 ELSE IF reported_truthy(reported)
                 THEN [isNone |-> FALSE, seq |-> cap_paths(rebuilt)]
                 ELSE [isNone |-> FALSE, seq |-> <<>>]
    /\ entities' = <<>>
    /\ phase' = "setup"
    /\ call' = [NoCall EXCEPT !.op = "setup", !.no_caps = caps_in.isNone]
    /\ UNCHANGED <<catalog, state, own_capabilties, ncalls>>
    /\ UNCHANGED <<nameVars, typeVars>>

\* Appliance.setup, lines 426-515
SetupEntities ==
    /\ phase = "setup"
    /\ LET acc0 == [raised |-> FALSE, caps |-> capabilities, cat |-> catalog,
                    entities |-> <<>>, catalog_item |-> "unbound"]
           acc1 == common_loop(acc0, capabilities_names, Len(COMMON_ATTRIBUTES))
           acc2 == IF acc1.raised THEN acc1
                   ELSE capability_loop(acc1, capabilities_names.seq, Len(capabilities_names.seq))
           bad  == acc2.raised \/ first_none(acc2.entities) <= Len(acc2.entities)
       IN  /\ capabilities' = acc2.caps
           /\ catalog' = acc2.cat
           /\ entities' = IF acc2.raised THEN <<>> ELSE acc2.entities
           /\ phase' = IF bad THEN "failed" ELSE "ready"
           /\ call' = [call EXCEPT !.raised = bad]
    /\ UNCHANGED <<heap, state, own_capabilties, reported_state, capabilities_names, ncalls>>
    /\ UNCHANGED <<nameVars, typeVars>>

\* Appliance.update, lines 537-542
Update(isNoneStatus, st) ==
    /\ phase = "ready"
    /\ ncalls < MaxCalls
    /\ LET heap2 == IF isNoneStatus THEN heap ELSE Append(heap, st)
           ref   == IF isNoneStatus THEN 0 ELSE Len(heap2)
           me    == update_missing_entities(own_capabilties, st, isNoneStatus,
                                            capabilities, catalog, entities)
           none  == first_none(me.entities) <= Len(me.entities)
       IN  /\ heap' = heap2
           /\ state' = ref
           /\ capabilities' = me.caps
           /\ entities' = IF me.raised THEN me.entities ELSE update_entities(me.entities, ref)
           /\ call' = [NoCall EXCEPT !.op = "update", !.raised = me.raised \/ none, !.ref = ref]
    /\ ncalls' = ncalls + 1
    /\ UNCHANGED <<catalog, own_capabilties, reported_state, capabilities_names, phase>>
    /\ UNCHANGED <<nameVars, typeVars>>

\* a variant whose entity loop runs outside the try block, so that it also
\* runs (and the failure escapes) when the state has no reported section
UpdateReportedDataUnguarded(d) ==
    /\ phase = "ready"
    /\ ncalls < MaxCalls
    /\ IF state = 0 \/ ~has_reported(heap[IF state = 0 THEN 1 ELSE state])
       THEN /\ UNCHANGED <<heap, capabilities>>
            /\ entities' = update_entities(entities, state)
            /\ call' = [NoCall EXCEPT !.op = "update_reported_data", !.d = d, !.ref = state,
                                      !.raised = TRUE]
       ELSE LET st2   == [heap[state] EXCEPT !.reported = dict_update(@, d)]
                me    == update_missing_entities(own_capabilties, st2, FALSE,
                                                 capabilities, catalog, entities)
            IN  /\ heap' = [heap EXCEPT ![state] = st2]
                /\ capabilities' = me.caps
                /\ entities' = IF me.raised THEN me.entities
                               ELSE update_entities(me.entities, state)
                /\ call' = [NoCall EXCEPT !.op = "update_reported_data", !.d = d, !.ref = state]
    /\ ncalls' = ncalls + 1
    /\ UNCHANGED <<catalog, state, own_capabilties, reported_state, capabilities_names, phase>>
    /\ UNCHANGED <<nameVars, typeVars>>

\* Appliance.update_reported_data, lines 517-535: every exception is caught
UpdateReportedData(d) ==
    /\ phase = "ready"
    /\ ncalls < MaxCalls
    /\ IF state = 0 \/ ~has_reported(heap[IF state = 0 THEN 1 ELSE state])
       THEN UNCHANGED <<heap, capabilities, entities>>
       ELSE LET st2   == [heap[state] EXCEPT !.reported = dict_update(@, d)]
                me    == update_missing_entities(own_capabilties, st2, FALSE,
                                                 capabilities, catalog, entities)
            IN  /\ heap' = [heap EXCEPT ![state] = st2]
                /\ capabilities' = me.caps
                /\ entities' = IF me.raised THEN me.entities
                               ELSE update_entities(me.entities, state)
    /\ call' = [NoCall EXCEPT !.op = "update_reported_data", !.d = d, !.ref = state]
    /\ ncalls' = ncalls + 1
    /\ UNCHANGED <<catalog, state, own_capabilties, reported_state, capabilities_names, phase>>
    /\ UNCHANGED <<nameVars, typeVars>>

IdleApp ==
    /\ catalog = Catalog
    /\ heap = <<>>
    /\ state = 0
    /\ own_capabilties = FALSE
    /\ reported_state = 0
    /\ capabilities = NoneCaps
    /\ capabilities_names = [isNone |-> TRUE, seq |-> <<>>]
    /\ entities = <<>>
    /\ phase = "idle"
    /\ call = NoCall
    /\ ncalls = 0

IdleName ==
    /\ attr_name = <<"a">>
    /\ s = <<>>
    /\ i = 0
    /\ group = <<>>
    /\ words = <<>>
    /\ label = <<>>
    /\ pcName = "idle"

IdleType ==
    /\ capability_def = NoCapability
    /\ entity_type = "unset"
    /\ pcType = "idle"

Init == InitApp /\ IdleName /\ IdleType

Next ==
    \/ \E c \in ServerCapabilities, f \in UpdateStates : has_reported(f) /\ SetupRebuild(c, f)
    \/ SetupEntities
    \/ Update(TRUE, StateObj("missing", "connected", Absent, EmptyReported))
    \/ \E st \in UpdateStates : Update(FALSE, st)
    \/ \E d \in ReportedData : UpdateReportedData(d)

\* the appliance: construction, setup, then updates
Spec == Init /\ [][Next]_vars

\* get_sensor_name on every identifier up to MaxLen characters
InitSensorName == InitName /\ IdleType /\ IdleApp
SpecName == InitSensorName /\ [][NextName]_vars

\* get_entity_type on every capability definition
InitEntityType == InitType /\ IdleName /\ IdleApp
SpecType == InitEntityType /\ [][NextType]_vars

(***************************************************************************)
(* Properties of get_sensor_name (checked under SpecName)                  *)
(***************************************************************************)
iscap(c) == isupper(c) \/ isdigit(c)

\* the characters of a string that are not spaces
Letters(str) == SelectSeq(str, LAMBDA c : c # " ")

\* position of str[p] among the non-space characters of str
LetterIndex(str, p) == Cardinality({q \in 1..p : str[q] # " "})

\* the letters (by their position among the letters) that start a new word:
\* those directly preceded by a space, the first letter excepted
WordStarts(str) ==
    {LetterIndex(str, p) : p \in {q \in 2..Len(str) : str[q] # " " /\ str[q - 1] = " "}} \ {1}

\* the words of a label: its maximal space-free stretches
LabelWords(str) ==
    {SubSeq(str, x[1], x[2]) :
        x \in {y \in (1..Len(str)) \X (1..Len(str)) :
                 /\ y[1] <= y[2]
                 /\ \A q \in y[1]..y[2] : str[q] # " "
                 /\ (y[1] = 1 \/ str[y[1] - 1] = " ")
                 /\ (y[2] = Len(str) \/ str[y[2] + 1] = " ")}}

\* what follows the last "/" of an identifier
LastSlash(str) ==
    IF \E q \in 1..Len(str) : str[q] = "/"
    THEN CHOOSE q \in 1..Len(str) : str[q] = "/" /\ \A r \in (q + 1)..Len(str) : str[r] # "/"
    ELSE 0
AfterLastSlash(str) == SubSeq(str, LastSlash(str) + 1, Len(str))
EndsInSlash(str) == str[Len(str)] = "/"

\* the identifier as the label should spell it: path dropped, "_" as space
Spelled(str) == replace_underscore(AfterLastSlash(str))
Capitalised(str) == IF str = <<>> THEN str ELSE <<upper(str[1])>> \o Tail(str)

\* the maximal runs [a, b] of capitals/digits of a string
CapRuns(str) ==
    {x \in (1..Len(str)) \X (1..Len(str)) :
        /\ x[1] <= x[2]
        /\ \A q \in x[1]..x[2] : iscap(str[q])
        /\ (x[1] = 1 \/ ~iscap(str[x[1] - 1]))
        /\ (x[2] = Len(str) \/ ~iscap(str[x[2] + 1]))}

\* the acronym groups [a, b] of a string: a run of capitals/digits that ends the
\* string or stands before a space, or the run without its last capital letter
\* when that letter starts a capitalised word; at least two characters
Acronyms(str) ==
    {x \in (1..Len(str)) \X (1..Len(str)) :
        /\ x[1] < x[2]
        /\ \E r \in CapRuns(str) :
              /\ r[1] = x[1]
              /\ \/ r[2] = x[2] /\ (x[2] = Len(str) \/ str[x[2] + 1] = " ")
                 \/ r[2] = x[2] + 1 /\ r[2] < Len(str) /\ isupper(str[r[2]])
                                    /\ islower(str[r[2] + 1])}

\* the acronym [a, b] of s is a word of its own in the label, capitals unchanged
IsOwnWord(x) ==
    LET L  == Letters(label)
        ka == LetterIndex(s, x[1])
        kb == LetterIndex(s, x[2])
    IN  /\ \A q \in x[1]..x[2] : L[LetterIndex(s, q)] = s[q]
        /\ (ka = 1 \/ ka \in WordStarts(label))
        /\ (kb = Len(L) \/ (kb + 1) \in WordStarts(label))

\* C8: every all-caps acronym group of the identifier is emitted as its own
\* word with its capitals unchanged, also when a capitalised word follows it
\* (stated for identifiers without underscores)
C8_AcronymPreserved ==
    (pcName = "done" /\ \A q \in 1..Len(attr_name) : attr_name[q] # "_") =>
        \A x \in Acronyms(s) : IsOwnWord(x)

AllCaps(w) == \A q \in 1..Len(w) : iscap(w[q])
NoCapital(w) == \A q \in 1..Len(w) : ~isupper(w[q])

\* C9: every word of the label is made only of capitals and digits, or holds
\* no capital letter at all
C9_WordsUniformCase ==
    pcName = "done" => \A w \in LabelWords(label) : AllCaps(w) \/ NoCapital(w)

\* the lower-case letter to capital/digit transitions of a string, by letter position
Transitions(str) ==
    {LetterIndex(str, p) : p \in {q \in 2..Len(str) : islower(str[q - 1]) /\ iscap(str[q])}}

\* every boundary the claim names: lower to upper, letter to digit, digit to letter
isletter(c) == islower(c) \/ isupper(c)
ClaimedBoundaries(str) ==
    {LetterIndex(str, p) :
        p \in {q \in 2..Len(str) :
                 \/ islower(str[q - 1]) /\ isupper(str[q])
                 \/ isletter(str[q - 1]) /\ isdigit(str[q])
                 \/ isdigit(str[q - 1]) /\ isletter(str[q])}}

SameLetters(a, b) == str_lower(Letters(a)) = str_lower(Letters(b))

Returned == pcType = "done" /\ capability_def.present
NonEmptyMapping(v) == v.kind = "dict" /\ v.keys # {}

\* C1: a boolean capability with an access value is a switch when readwrite,
\* with or without a values entry, and a binary sensor when read
C1_BooleanSwitchOrBinarySensor ==
    (Returned /\ capability_def.type = "boolean" /\ capability_def.access # None) =>
        /\ capability_def.access = "readwrite" => entity_type = SWITCH
        /\ capability_def.access = "read" => entity_type = BINARY_SENSOR

C1_Witness ==
    /\ Returned
    /\ capability_def.type = "boolean"
    /\ capability_def.access = "readwrite"
    /\ NonEmptyMapping(capability_def.values)
    /\ capability_def.min = None
    /\ entity_type = SWITCH

\* C2: a non-boolean capability with access readwrite, a non-empty values
\* mapping and no min is a select
C2_ValuesWithoutMinIsSelect ==
    (/\ Returned
     /\ capability_def.type \notin {None, "boolean"}
     /\ capability_def.access = "readwrite"
     /\ NonEmptyMapping(capability_def.values)
     /\ capability_def.min = None) => entity_type = SELECT

C2_Witness ==
    /\ Returned
    /\ capability_def.type = "number"
    /\ capability_def.access = "readwrite"
    /\ NonEmptyMapping(capability_def.values)
    /\ capability_def.min = None
    /\ entity_type = SELECT

\* C3 as stated: select is returned only for access readwrite, a non-empty
\* values mapping and no min
C3_SelectOnlyWithoutMin ==
    (Returned /\ entity_type = SELECT) =>
        /\ capability_def.access = "readwrite"
        /\ NonEmptyMapping(capability_def.values)
        /\ capability_def.min = None

\* C3 amended: select is returned only for access readwrite, a non-empty
\* values mapping and a capability that has no min or is not of type number
C3_SelectOnlyWithoutNumberMin ==
    (Returned /\ entity_type = SELECT) =>
        /\ capability_def.access = "readwrite"
        /\ NonEmptyMapping(capability_def.values)
        /\ (capability_def.min = None \/ capability_def.type # "number")

C3_Witness ==
    /\ Returned
    /\ entity_type = SELECT
    /\ capability_def.min # None
    /\ capability_def.type = "int"

\* C4: a non-boolean capability is a sensor when read and of type temperature,
\* number, int or string, whatever its values and min; it is a number when
\* readwrite, without a values entry and of type temperature, int or number
C4_SensorOrNumber ==
    (Returned /\ capability_def.type # "boolean") =>
        /\ (/\ capability_def.access = "read"
            /\ capability_def.type \in {"temperature", "number", "int", "string"})
              => entity_type = SENSOR
        /\ (/\ capability_def.access = "readwrite"
            /\ capability_def.values = NoValues
            /\ capability_def.type \in {"temperature", "int", "number"})
              => entity_type = NUMBER

C4_Witness ==
    /\ Returned
    /\ capability_def.access = "read"
    /\ capability_def.type = "string"
    /\ NonEmptyMapping(capability_def.values)
    /\ capability_def.min # None
    /\ entity_type = SENSOR

(***************************************************************************)
(* Properties of the Appliance (checked under Spec)                        *)
(***************************************************************************)
CatalogKeySet == {CatalogKeys[n] : n \in 1..Len(CatalogKeys)}

\* the key of a catalog entry is present in a reported section, at top level
\* or under the entry's category
KeyPresent(r, key) ==
    \/ key \in RKeys /\ r[key].kind # Absent
    \/ /\ Catalog[key].category \in RKeys
       /\ r[Catalog[key].category].kind = "dict"
       /\ r[Catalog[key].category].sub[key] # Absent

\* the key of a catalog entry has a truthy value in a reported section: at top
\* level for an entry without category, under its category otherwise
KeyTruthy(r, key) ==
    IF Catalog[key].category = None
    THEN key \in RKeys /\ r[key].kind # Absent /\ truthy(r[key])
    ELSE /\ r[Catalog[key].category].kind = "dict"
         /\ r[Catalog[key].category].sub[key] \notin {Absent, "0"}

InCapabilities(key) ==
    /\ ~capabilities.isNone
    /\ has_path(capabilities, make_path(Catalog[key].category, key))

\* setup has rebuilt (lines 399-425) for data without capabilities, on a state
\* that has a reported section
Rebuilt ==
    /\ phase = "setup"
    /\ call.no_caps
    /\ state # 0
    /\ has_reported(heap[state])

HasEntity(key) ==
    \E n \in 1..Len(entities) :
        /\ entities[n].entity_attr = key
        /\ entities[n].entity_source \in {Catalog[key].category, ""}

\* the reported state the last update call delivered
Delivered ==
    IF call.op = "update" THEN heap[state].reported ELSE call.d

\* the capabilities are the ones setup rebuilt from the catalog
OwnCapabilities ==
    /\ ~capabilities.isNone
    /\ \A n \in 1..Len(capabilities.items) : capabilities.items[n].alias # None

\* C6: after an update or update_reported_data call that delivered a catalog
\* key (with a value) in a reported state, the appliance has an entity for it
\* (stated for an appliance whose capabilities were rebuilt from the catalog)
C6_UpdateDiscoversEntities ==
    (/\ phase = "ready"
     /\ OwnCapabilities
     /\ call.op \in {"update", "update_reported_data"}
     /\ ~call.raised
     /\ state # 0
     /\ has_reported(heap[state])) =>
        \A key \in CatalogKeySet : KeyTruthy(Delivered, key) => HasEntity(key)

\* C7: update_reported_data(d) on a state with a reported section sets every
\* key of d, keeps every other key of the section, and changes nothing else
\* of the state (nor any other state object)
C7_ReportedDataIsMerged ==
    [][(call'.op = "update_reported_data" /\ state # 0 /\ has_reported(heap[state])) =>
          /\ state' = state
          /\ Len(heap') = Len(heap)
          /\ \A n \in 1..Len(heap) : n # state => heap'[n] = heap[n]
          /\ heap'[state].props = heap[state].props
          /\ heap'[state].connectionState = heap[state].connectionState
          /\ heap'[state].desired = heap[state].desired
          /\ \A k \in RKeys :
                heap'[state].reported[k] =
                    IF call'.d[k].kind # Absent THEN call'.d[k] ELSE heap[state].reported[k]
      ]_vars

C7_Witness ==
    /\ call.op = "update_reported_data"
    /\ state # 0
    /\ has_reported(heap[state])
    /\ call.d["doorState"] = Scalar("1")
    /\ call.d["userSelections"].kind = Absent
    /\ heap[state].reported["doorState"] = Scalar("1")
    /\ heap[state].reported["userSelections"] = Container("targetTemperatureC", "1")
    /\ Len(heap) > 1

\* the state of the appliance is missing, or has no properties or no reported
\* section
NoReportedSection == state = 0 \/ ~has_reported(heap[IF state = 0 THEN 1 ELSE state])

\* C11: update_reported_data never raises to its caller; when the state is
\* missing or has no properties or no reported section, the state is left
\* unchanged and no entity's appliance_status is changed
C11_ReportedDataNeverRaises ==
    [][call'.op = "update_reported_data" =>
          /\ ~call'.raised
          /\ NoReportedSection =>
                /\ state' = state
                /\ heap' = heap
                /\ Len(entities') = Len(entities)
                /\ \A n \in 1..Len(entities) :
                      entities'[n].appliance_status = entities[n].appliance_status
      ]_vars

C11_Witness ==
    /\ call.op = "update_reported_data"
    /\ ~call.raised
    /\ call.d["doorState"] = Scalar("1")
    /\ state # 0
    /\ heap[state].props = "noreported"
    /\ Len(entities) > 0
    /\ \A n \in 1..Len(entities) : entities[n].appliance_status = Unset

\* C12: a capability whose access is neither read nor readwrite (write,
\* constant) has no entity kind: get_entity_type returns None whatever its
\* type, values and min
C12_OtherAccessIgnored ==
    (Returned /\ capability_def.access \notin {None, "read", "readwrite"}) =>
        entity_type = None

\* the capability info the claim expects after setup for a server-reported
\* entry: the server's info, filled from the catalog entry of the same name
OwnCatalogMerge(e) ==
    LET name == get_entity_name(e.path)
    IN  IF name \in DOMAIN Catalog /\ e.info.present
        THEN merge_info(e.info, Catalog[name].capability_info)
        ELSE e.info

\* C13: when setup returns, each server-reported capability holds the server's
\* info filled in from the catalog entry of its own entity name, and is left
\* as reported when it has no catalog entry
C13_MergedFromOwnCatalogEntry ==
    [][(phase = "setup" /\ phase' = "ready" /\ ~capabilities.isNone) =>
          \A n \in 1..Len(capabilities.items) :
              LET e == capabilities.items[n]
              IN  e.alias = None =>
                    /\ has_path(capabilities', e.path)
                    /\ capabilities'.items[cap_index(capabilities', e.path)].info
                          = OwnCatalogMerge(e)
      ]_vars

\* the value reported in the status st for an attribute, under its source when
\* the source is non-empty; Missing (None) when st, its properties, its reported
\* section, the source container or the attribute is missing
ReportedIn(st, attr, source) ==
    IF st = 0 THEN Missing
    ELSE IF heap[st].props # "reported" THEN Missing
    ELSE LET r == heap[st].reported
         IN  IF source # None /\ source # ""
             THEN IF source \in RKeys /\ r[source].kind = "dict" /\ attr \in SubKeys
                     /\ r[source].sub[attr] # Absent
                  THEN Scalar(r[source].sub[attr])
                  ELSE Missing
             ELSE IF attr \in RKeys THEN r[attr] ELSE Missing

\* C14: after update(s) has returned, whatever calls came before, every entity
\* reads from s: extract_value is the value reported in s under the entity's
\* source and attribute, and None when any level is missing
C14_EntitiesReadLastStatus ==
    (phase = "ready" /\ call.op = "update") =>
        /\ ~call.raised
        /\ state = call.ref
        /\ \A n \in 1..Len(entities) :
              extract_value(entities[n], heap)
                 = ReportedIn(call.ref, entities[n].entity_attr, entities[n].entity_source)

C14_Witness ==
    /\ phase = "ready"
    /\ call.op = "update"
    /\ ncalls = 2
    /\ \E n \in 1..Len(entities) :
          /\ entities[n].entity_source = "userSelections"
          /\ extract_value(entities[n], heap) = Scalar("1")
    /\ \E n \in 1..Len(entities) :
          /\ entities[n].entity_source = ""
          /\ extract_value(entities[n], heap) = Missing

\* C15: after update(s) has replaced the state, get_value of the appliance's
\* library entity returns, for every attribute and source, the value reported
\* in s
C15_GetValueReadsCurrentState ==
    (phase = "ready" /\ call.op = "update" /\ state # 0) =>
        \A attr \in RKeys \cup SubKeys, source \in {None, ""} \cup RKeys :
            get_value(heap, reported_state, attr, source) = ReportedIn(state, attr, source)

====
